---- MODULE Spec2Model ----
(***************************************************************************)
(* Model of dspace_statistics_api/indexer.py: the batch job that reads     *)
(* item views and downloads from the Solr statistics core(s) and upserts   *)
(* them, page by page, into the PostgreSQL table items(id, views,          *)
(* downloads).                                                             *)
(*                                                                         *)
(* One process run is: CREATE TABLE IF NOT EXISTS, get_statistics_shards,  *)
(* index_views, index_downloads.  Several runs follow one another on the   *)
(* same database (the job is run periodically).                            *)
(*                                                                         *)
(* Strings that the code inspects character by character (core names, the  *)
(* shards parameter) are sequences of one-character strings.  Item ids are *)
(* the integers 1, 2, ... (the n-th distinct id of the facet list).        *)
(***************************************************************************)
EXTENDS Integers, Sequences, FiniteSets, TLC

VARIABLES
    pc,                      \* where the process is (see PcValues)
    run,                     \* number of the current process run, from 1
    tableExists,             \* the items table has been created
    items,                   \* the items table: id -> [views, downloads]
    shards,                  \* module global `shards` (line 269)
    results_totalNumFacets,  \* locals of index_views / index_downloads
    results_num_pages,
    results_current_page,
    data,                    \* the batch list (lines 132, 215)
    upstream,                \* what Solr has answered in this run
    replay,                  \* Solr's data is unchanged since the previous run
    prevUpstream,            \* what Solr answered in the previous run
    connections,             \* number of open database connections of the process
    workers,                 \* the processes of concurrent runs (SpecConc only)
    queries,                 \* log: the /statistics/select requests of this run and
                             \*      the commits of its batches, in order
    lastSeen,                \* log: per column, id -> count of the latest upsert naming id
    itemsPrev                \* log: the table as the previous run left it

vars == <<pc, run, tableExists, items, shards, results_totalNumFacets,
          results_num_pages, results_current_page, data, upstream, replay,
          prevUpstream, connections, workers, queries, lastSeen, itemsPrev>>

-----------------------------------------------------------------------------
(* Bounds of the model *)

\* Number of consecutive process runs explored.
MaxRuns == 2

\* Longest list of cores in an admin STATUS response (shard resolver runs).
MaxCores == 2

\* Facet counts of the upstream data range over 1..CountRange.
CountRange == 3

\* Number of processes running the module at the same time.
NumProcs == 2

\* Distinct-count values Solr reports (and the length of the facet list).
NValues == {0, 100, 101}

\* Two editions of the upstream counts, so that a later run can bring
\* different counts for the same id.
Versions == {0, 1}

-----------------------------------------------------------------------------
(* Program constants *)

\* results_per_page = 100
results_per_page == 100

\* requests.codes.ok
codes_ok == 200

\* SOLR_SERVER (from .config): an opaque piece of the strings built from it.
SOLR_SERVER == "SOLR_SERVER"

Dimensions == {"views", "downloads"}

PcValues == {"init", "table_ensured", "shards_resolved", "views_loop",
             "views_indexed", "downloads_loop", "done", "exited", "crashed"}

\* "statistics"
Statistics == <<"s", "t", "a", "t", "i", "s", "t", "i", "c", "s">>

Digits == {"0", "1", "2", "3", "4", "5", "6", "7", "8", "9"}

Min(a, b) == IF a <= b THEN a ELSE b

-----------------------------------------------------------------------------
(* get_statistics_shards (lines 43-84) *)

\* Core names that a STATUS response may list (keys of data["status"]).
Year2018 == <<"2", "0", "1", "8">>

Year2019 == <<"2", "0", "1", "9">>

CoreNames ==
    { Statistics,                                          \* statistics
      Statistics \o <<"-">> \o Year2018,                   \* statistics-2018
      Statistics \o <<"-">> \o Year2019,                   \* statistics-2019
      Statistics \o <<"-", "2", "0", "1">>,                \* statistics-201
      Statistics \o <<"-">> \o Year2018 \o <<"0">>,        \* statistics-20180
      Statistics \o <<"-", "2", "0", "a", "8">>,           \* statistics-20a8
      Statistics \o <<"_">> \o Year2018,                   \* statistics_2018
      <<"x">> \o Statistics \o <<"-">> \o Year2018,        \* xstatistics-2018
      <<"s", "e", "a", "r", "c", "h">> }                   \* search

\* Lists of pairwise different core names (the keys of a JSON object, in the
\* order of the response), of length at most n.
RECURSIVE CoreLists(_)
CoreLists(n) ==
    IF n = 0 THEN {<<>>}
    ELSE LET shorter == CoreLists(n - 1)
             longest == {l \in shorter : Len(l) = n - 1}
             Fresh(l) == {c \in CoreNames : \A i \in DOMAIN l : l[i] # c}
         IN  shorter \cup UNION { {Append(l, c) : c \in Fresh(l)} : l \in longest }

\* Responses of GET /admin/cores?action=STATUS&wt=json.
AllCoreResponses ==
    [status_code : {codes_ok, 404}, cores : CoreLists(MaxCores)]

\* The responses explored in full pipeline runs: the request fails, Solr has
\* no yearly core, Solr has one yearly core.
RunCoreResponses ==
    { [status_code |-> 404, cores |-> <<>>],
      [status_code |-> codes_ok, cores |-> <<Statistics>>],
      [status_code |-> codes_ok,
       cores |-> <<Statistics, Statistics \o <<"-">> \o Year2018>>] }

\* s starts with the literal lit.
StartsWith(s, lit) ==
    Len(s) >= Len(lit) /\ SubSeq(s, 1, Len(lit)) = lit

\* The pattern without its end anchor: any name that begins like a yearly core.
PatternMatchNoEnd(core) ==
    LET lit  == Statistics \o <<"-">>
        rest == SubSeq(core, Len(lit) + 1, Len(core))
    IN  /\ StartsWith(core, lit)
        /\ Len(rest) >= 4
        /\ \A i \in 1..4 : rest[i] \in Digits

\* re.compile("^statistics-[0-9]{4}$").match(core): the literal, four digits,
\* then the end of the string ($ also matches before one final line break).
PatternMatch(core) ==
    LET lit  == Statistics \o <<"-">>
        rest == SubSeq(core, Len(lit) + 1, Len(core))
    IN  /\ StartsWith(core, lit)
        /\ Len(rest) >= 4
        /\ \A i \in 1..4 : rest[i] \in Digits
        /\ \/ Len(rest) = 4
           \/ Len(rest) = 5 /\ rest[5] = "\n"

\* The loop of lines 75-79: shards += f",{SOLR_SERVER}/{core}"
RECURSIVE AppendCores(_, _)
AppendCores(str, cores) ==
    IF cores = <<>> THEN str
    ELSE AppendCores(str \o <<",", SOLR_SERVER, "/">> \o Head(cores), Tail(cores))

\* The function's result for the response res.
get_statistics_shards(res) ==
    LET statistics_core_years ==
            IF res.status_code = codes_ok
            THEN SelectSeq(res.cores, PatternMatch)
            ELSE <<>>
    IN  IF Len(statistics_core_years) > 0
        THEN AppendCores(<<SOLR_SERVER, "/">> \o Statistics, statistics_core_years)
        ELSE <<>>

-----------------------------------------------------------------------------
(* The Solr statistics core, as index_views and index_downloads query it *)

\* stats.stats_fields.<field> of the first query (lines 112-118, 195-201):
\*   field_null  : the entry of the field is null (Solr has no matching document)
\*   key_absent  : the entry is an object without "countDistinct"
\*   value_null  : "countDistinct" is there and null
\*   count       : "countDistinct" is the integer n; the facet list has n ids
StatResponses ==
    { [kind |-> k, n |-> 0, version |-> 0] :
          k \in {"field_null", "key_absent", "value_null"} }
    \cup [kind : {"count"}, n : NValues, version : Versions]

NotAsked == [kind |-> "not_asked", n |-> 0, version |-> 0]

NoCoreResponse == [status_code |-> 0, cores |-> <<>>]

NoUpstream == [cores |-> NoCoreResponse, views |-> NotAsked, downloads |-> NotAsked]

\* The count of the i-th id of the facet list (facet.mincount = 1: at least 1).
Cnt(dim, i, version) ==
    1 + ((i + version + (IF dim = "downloads" THEN 1 ELSE 0)) % CountRange)

\* The whole facet list of a dimension: (id, count) pairs, in Solr's order.
FacetList(dim, resp) ==
    [i \in 1..resp.n |-> <<i, Cnt(dim, i, resp.version)>>]

\* The facets a paged query returns (facet.offset, facet.limit; lines 146-147,
\* 229-230), in the order of the returned map.
FacetPage(dim, resp, offset, limit) ==
    SubSeq(FacetList(dim, resp), offset + 1, Min(offset + limit, resp.n))

-----------------------------------------------------------------------------
(* The items table *)

\* views INT DEFAULT 0, downloads INT DEFAULT 0 (line 263)
DefaultRow == [views |-> 0, downloads |-> 0]

EmptyTable == [id \in {} |-> DefaultRow]

\* The VALUES list of a batch as a map id -> count (the "excluded" rows).
BatchMap(batch) ==
    [id \in {batch[k][1] : k \in DOMAIN batch} |->
        batch[CHOOSE k \in DOMAIN batch : batch[k][1] = id][2]]

\* Variant: the conflicting row is replaced as a whole (INSERT OR REPLACE), so
\* the other column falls back to its default.
UpsertReplace(tbl, column, batch) ==
    LET excluded == BatchMap(batch)
    IN  [id \in DOMAIN tbl \cup DOMAIN excluded |->
            IF id \in DOMAIN excluded
            THEN [DefaultRow EXCEPT ![column] = excluded[id]]
            ELSE tbl[id]]

\* Variant: ON CONFLICT(id) DO NOTHING, the stored value stays.
UpsertKeepOld(tbl, column, batch) ==
    LET excluded == BatchMap(batch)
    IN  [id \in DOMAIN tbl \cup DOMAIN excluded |->
            IF id \in DOMAIN tbl
            THEN tbl[id]
            ELSE [DefaultRow EXCEPT ![column] = excluded[id]]]

\* Variant: DO UPDATE SET <column> = items.<column> + excluded.<column>.
UpsertAdd(tbl, column, batch) ==
    LET excluded == BatchMap(batch)
    IN  [id \in DOMAIN tbl \cup DOMAIN excluded |->
            IF id \in DOMAIN excluded
            THEN IF id \in DOMAIN tbl
                 THEN [tbl[id] EXCEPT ![column] = @ + excluded[id]]
                 ELSE [DefaultRow EXCEPT ![column] = excluded[id]]
            ELSE tbl[id]]

\* Variant: the table is synchronised with the batch, rows the batch does not
\* name are deleted.
UpsertSync(tbl, column, batch) ==
    LET excluded == BatchMap(batch)
    IN  [id \in DOMAIN excluded |->
            IF id \in DOMAIN tbl
            THEN [tbl[id] EXCEPT ![column] = excluded[id]]
            ELSE [DefaultRow EXCEPT ![column] = excluded[id]]]

\* Variant: a plain UPDATE, which never inserts a row.
UpsertUpdateOnly(tbl, column, batch) ==
    LET excluded == BatchMap(batch)
    IN  [id \in DOMAIN tbl |->
            IF id \in DOMAIN excluded
            THEN [tbl[id] EXCEPT ![column] = excluded[id]]
            ELSE tbl[id]]

\* INSERT INTO items(id, <column>) VALUES ... ON CONFLICT(id) DO UPDATE SET
\* <column> = excluded.<column>   (lines 165-166, 248-249)
Upsert(tbl, column, batch) ==
    LET excluded == BatchMap(batch)
    IN  [id \in DOMAIN tbl \cup DOMAIN excluded |->
            IF id \in DOMAIN excluded
            THEN IF id \in DOMAIN tbl
                 THEN [tbl[id] EXCEPT ![column] = excluded[id]]
                 ELSE [DefaultRow EXCEPT ![column] = excluded[id]]
            ELSE tbl[id]]

-----------------------------------------------------------------------------
(* index_views (lines 87-172) and index_downloads (lines 175-255) *)

\* Variant: ceiling division, no extra page when n is a multiple of the page size.
NumPagesCeiling(n) ==
    IF n > 0 /\ n % results_per_page = 0
    THEN n \div results_per_page - 1
    ELSE n \div results_per_page

\* results_num_pages = int(results_totalNumFacets / results_per_page)
NumPages(n) == n \div results_per_page

\* Variant: the offset advances by one more than the page size.
PageOffsetGap(page) == page * (results_per_page + 1)

\* Variant: every page is asked for at the offset of the first.
PageOffsetStuck(page) == 0

\* "facet.offset": results_current_page * results_per_page
PageOffset(page) == page * results_per_page

\* Where each function is entered, loops and is left.
PcEnter(dim) == IF dim = "views" THEN "shards_resolved" ELSE "views_indexed"

PcLoop(dim) == IF dim = "views" THEN "views_loop" ELSE "downloads_loop"

\* Variant: the process ends when index_views returns.
PcLeaveAtOnce(dim) == "done"

PcLeave(dim) == IF dim = "views" THEN "views_indexed" ELSE "done"

\* Variant: the queries are sent without the shards parameter.
QueryUnsharded(dim, kind, offset, limit) ==
    [dim |-> dim, kind |-> kind, offset |-> offset, limit |-> limit,
     shards |-> <<>>, rows |-> 0]

Query(dim, kind, offset, limit) ==
    [dim |-> dim, kind |-> kind, offset |-> offset, limit |-> limit,
     shards |-> shards, rows |-> 0]

\* execute_values(cursor, sql, data) and db.commit() for the page at offset:
\* rows is the length of the batch sent (lines 166-167, 249-250).
Commit(dim, offset, batch) ==
    [dim |-> dim, kind |-> "commit", offset |-> offset,
     limit |-> results_per_page, shards |-> shards, rows |-> Len(batch)]

\* Variant: a plain INSERT, which raises a unique violation for every id of
\* the batch that has a row.
ConflictsPlainInsert(tbl, column, batch) == DOMAIN tbl \cap DOMAIN BatchMap(batch)

\* The ids for which the statement of lines 165 and 248 raises a unique
\* violation: none, ON CONFLICT(id) DO UPDATE handles a row that exists,
\* whoever inserted it.
Conflicts(tbl, column, batch) == {}

\* Variant: the page counter is not advanced.
NextPageStuck(page) == page

\* results_current_page += 1 (lines 172, 255)
NextPage(page) == page + 1

\* Variant: the batch list is kept for the next page.
ClearDataKeep(d) == d

\* data.clear() (lines 170, 253)
ClearData(d) == <<>>

\* Variant: a failed page request is swallowed and the loop goes on.
FetchFailedRetry(dim) == IF dim = "views" THEN "views_loop" ELSE "downloads_loop"

\* requests.get or res.json() raises (lines 156-159, 239-242): nothing
\* catches it, the process ends with a traceback.
FetchFailed(dim) == "crashed"

\* DatabaseManager (module .database): entering opens a connection, leaving
\* closes it.
DbConnect(n) == n + 1

DbClose(n) == n - 1

\* Variant: the connection is not closed when the block is left.
WithExitLeak(n) == n

\* with DatabaseManager() as db: (lines 129, 212, 258): the block is entered,
\* and left on every way out of it, an exception included.
WithEnter(n) == DbConnect(n)

WithExit(n) == DbClose(n)

\* The first query and what the code makes of its answer: the try block
\* catches the TypeError of subscripting null and calls exit(0); a missing
\* key raises KeyError, a null count raises TypeError at line 126 (209),
\* both unhandled.
StatQuery(dim) ==
    /\ pc = PcEnter(dim)
    /\ \E res \in StatResponses :
        /\ replay => res = prevUpstream[dim]
        /\ upstream' = [upstream EXCEPT ![dim] = res]
        /\ queries' = Append(queries, Query(dim, "stat", 0, 1))
        /\ IF res.kind = "field_null"
           THEN /\ pc' = "exited"
                /\ UNCHANGED <<results_totalNumFacets, results_num_pages,
                               results_current_page, data, connections>>
           ELSE IF res.kind # "count"
           THEN /\ pc' = "crashed"
                /\ UNCHANGED <<results_totalNumFacets, results_num_pages,
                               results_current_page, data, connections>>
           ELSE /\ results_totalNumFacets' = res.n
                /\ results_num_pages' = NumPages(res.n)
                /\ results_current_page' = 0
                /\ connections' = WithEnter(connections)
                /\ data' = <<>>
                /\ pc' = PcLoop(dim)
    /\ UNCHANGED <<run, tableExists, items, shards, replay, prevUpstream,
                   workers, lastSeen, itemsPrev>>

\* One iteration of the while loop: the paged query, the batch, the upsert,
\* the commit, data.clear(), the next page.  A failed request, an unreadable
\* answer or a statement the database rejects raises and ends the process.
PageStep(dim) ==
    /\ pc = PcLoop(dim)
    /\ results_current_page <= results_num_pages
    /\ LET offset == PageOffset(results_current_page)
           asked  == Append(queries, Query(dim, "page", offset, results_per_page))
       IN  \E ok \in BOOLEAN :
                IF ~ok
                THEN /\ queries' = asked
                     /\ pc' = FetchFailed(dim)
                     /\ connections' = IF FetchFailed(dim) = "crashed"
                                       THEN WithExit(connections)
                                       ELSE connections
                     /\ UNCHANGED <<items, lastSeen, data, results_current_page>>
                ELSE LET batch == data \o FacetPage(dim, upstream[dim], offset,
                                                    results_per_page)
                     IN  IF Conflicts(items, dim, batch) # {}
                         THEN /\ queries' = asked
                              /\ pc' = "crashed"
                              /\ connections' = WithExit(connections)
                              /\ data' = batch
                              /\ UNCHANGED <<items, lastSeen, results_current_page>>
                         ELSE /\ items' = Upsert(items, dim, batch)
                              /\ lastSeen' = [lastSeen EXCEPT
                                                 ![dim] = BatchMap(batch) @@ @]
                              /\ queries' = Append(asked, Commit(dim, offset, batch))
                              /\ data' = ClearData(batch)
                              /\ results_current_page' = NextPage(results_current_page)
                              /\ IF NextPage(results_current_page) <= results_num_pages
                                 THEN /\ pc' = PcLoop(dim)
                                      /\ UNCHANGED connections
                                 ELSE /\ pc' = PcLeave(dim)
                                      /\ connections' = WithExit(connections)
    /\ UNCHANGED <<run, tableExists, shards, results_totalNumFacets,
                   results_num_pages, upstream, replay, prevUpstream, workers,
                   itemsPrev>>

index_views_stat == StatQuery("views")

index_views_page == PageStep("views")

index_downloads_stat == StatQuery("downloads")

index_downloads_page == PageStep("downloads")

-----------------------------------------------------------------------------
(* The module body (lines 258-272) *)

\* Variant: the table is created anew (DROP TABLE, CREATE TABLE).
EnsureTableAnew(exists, tbl) == EmptyTable

\* CREATE TABLE IF NOT EXISTS items (...): the rows of the table afterwards
EnsureTable(exists, tbl) == IF exists THEN tbl ELSE EmptyTable

\* The with block of lines 258-267: connect, create the table if it is not
\* there, commit, close.
CreateTable ==
    /\ pc = "init"
    /\ tableExists' = TRUE
    /\ items' = EnsureTable(tableExists, items)
    /\ connections' = WithExit(WithEnter(connections))
    /\ pc' = "table_ensured"
    /\ UNCHANGED <<run, shards, results_totalNumFacets, results_num_pages,
                   results_current_page, data, upstream, replay, prevUpstream,
                   workers, queries, lastSeen, itemsPrev>>

\* shards = get_statistics_shards(), Solr answering with one of responses
ResolveShards(responses) ==
    /\ pc = "table_ensured"
    /\ \E res \in responses :
        /\ replay => res = prevUpstream.cores
        /\ upstream' = [upstream EXCEPT !.cores = res]
        /\ shards' = get_statistics_shards(res)
    /\ pc' = "shards_resolved"
    /\ UNCHANGED <<run, tableExists, items, results_totalNumFacets,
                   results_num_pages, results_current_page, data, replay,
                   prevUpstream, connections, workers, queries, lastSeen,
                   itemsPrev>>

get_shards == ResolveShards(RunCoreResponses)

get_shards_any == ResolveShards(AllCoreResponses)

Terminated == pc \in {"done", "exited", "crashed"}

\* The job is started again, on the table the earlier runs left.  Either Solr
\* answers as in the previous run (which ended with exit status 0), or its
\* data may have changed.
NewRun ==
    /\ Terminated
    /\ run < MaxRuns
    /\ run' = run + 1
    /\ \E same \in BOOLEAN :
        /\ same => pc \in {"done", "exited"}
        /\ replay' = same
        /\ prevUpstream' = IF same THEN upstream ELSE NoUpstream
    /\ pc' = "init"
    /\ shards' = <<>>
    /\ results_totalNumFacets' = 0
    /\ results_num_pages' = 0
    /\ results_current_page' = 0
    /\ data' = <<>>
    /\ upstream' = NoUpstream
    /\ queries' = <<>>
    /\ itemsPrev' = items
    /\ connections' = 0
    /\ UNCHANGED <<tableExists, items, lastSeen, workers>>

Init ==
    /\ pc = "init"
    /\ run = 1
    /\ tableExists = FALSE
    /\ items = EmptyTable
    /\ shards = <<>>
    /\ results_totalNumFacets = 0
    /\ results_num_pages = 0
    /\ results_current_page = 0
    /\ data = <<>>
    /\ upstream = NoUpstream
    /\ replay = FALSE
    /\ prevUpstream = NoUpstream
    /\ connections = 0
    /\ workers = <<>>
    /\ queries = <<>>
    /\ lastSeen = [views |-> EmptyTable, downloads |-> EmptyTable]
    /\ itemsPrev = EmptyTable

Next ==
    \/ CreateTable
    \/ get_shards
    \/ index_views_stat
    \/ index_views_page
    \/ index_downloads_stat
    \/ index_downloads_page
    \/ NewRun

Spec == Init /\ [][Next]_vars

\* The steps of the process.  The interpreter runs the module to its end:
\* a step that can be taken is taken.
ProcessStep ==
    \/ CreateTable
    \/ get_shards
    \/ index_views_stat
    \/ index_views_page
    \/ index_downloads_stat
    \/ index_downloads_page

SpecFair == Init /\ [][Next]_vars /\ WF_vars(ProcessStep)

\* Two runs of the module at once, as two processes on one database and one
\* Solr whose data does not change.  Each process has its own locals; a step
\* of a process is one first query or one whole loop iteration (query, upsert,
\* commit).  The processes are taken up when each has ensured the table and
\* resolved the shards, and every request succeeds.
Procs == 1..NumProcs

CountResponses == [kind : {"count"}, n : NValues, version : Versions]

InitConc ==
    /\ pc = "shards_resolved"
    /\ run = 1
    /\ tableExists = TRUE
    /\ items = EnsureTable(FALSE, EmptyTable)
    /\ shards = <<>>
    /\ results_totalNumFacets = 0
    /\ results_num_pages = 0
    /\ results_current_page = 0
    /\ data = <<>>
    /\ \E v, d \in CountResponses :
          upstream = [cores |-> NoCoreResponse, views |-> v, downloads |-> d]
    /\ replay = FALSE
    /\ prevUpstream = NoUpstream
    /\ connections = 0
    /\ workers = [p \in Procs |->
                    [pc |-> "shards_resolved", results_num_pages |-> 0,
                     results_current_page |-> 0, data |-> <<>>]]
    /\ queries = <<>>
    /\ lastSeen = [views |-> EmptyTable, downloads |-> EmptyTable]
    /\ itemsPrev = EmptyTable

\* The first query of index_views or index_downloads in process p.
ConcStat(p, dim) ==
    /\ workers[p].pc = PcEnter(dim)
    /\ workers' = [workers EXCEPT
                     ![p] = [pc |-> PcLoop(dim),
                             results_num_pages |-> NumPages(upstream[dim].n),
                             results_current_page |-> 0,
                             data |-> <<>>]]
    /\ UNCHANGED <<pc, run, tableExists, items, shards, results_totalNumFacets,
                   results_num_pages, results_current_page, data, upstream,
                   replay, prevUpstream, connections, queries, lastSeen,
                   itemsPrev>>

\* One iteration of the while loop in process p.
ConcPage(p, dim) ==
    /\ workers[p].pc = PcLoop(dim)
    /\ workers[p].results_current_page <= workers[p].results_num_pages
    /\ LET offset == PageOffset(workers[p].results_current_page)
           batch  == workers[p].data \o FacetPage(dim, upstream[dim], offset,
                                                  results_per_page)
           page   == NextPage(workers[p].results_current_page)
       IN  IF Conflicts(items, dim, batch) # {}
           THEN /\ workers' = [workers EXCEPT ![p].pc = "crashed",
                                              ![p].data = batch]
                /\ UNCHANGED <<items, lastSeen>>
           ELSE /\ items' = Upsert(items, dim, batch)
                /\ lastSeen' = [lastSeen EXCEPT ![dim] = BatchMap(batch) @@ @]
                /\ workers' = [workers EXCEPT
                                 ![p].data = ClearData(batch),
                                 ![p].results_current_page = page,
                                 ![p].pc = IF page <= workers[p].results_num_pages
                                           THEN PcLoop(dim)
                                           ELSE PcLeave(dim)]
    /\ UNCHANGED <<pc, run, tableExists, shards, results_totalNumFacets,
                   results_num_pages, results_current_page, data, upstream,
                   replay, prevUpstream, connections, queries, itemsPrev>>

conc_views_stat == \E p \in Procs : ConcStat(p, "views")

conc_views_page == \E p \in Procs : ConcPage(p, "views")

conc_downloads_stat == \E p \in Procs : ConcStat(p, "downloads")

conc_downloads_page == \E p \in Procs : ConcPage(p, "downloads")

NextConc ==
    \/ conc_views_stat
    \/ conc_views_page
    \/ conc_downloads_stat
    \/ conc_downloads_page

SpecConc == InitConc /\ [][NextConc]_vars

\* The shard resolver alone, over every STATUS response of the bounds.
NextShards ==
    \/ CreateTable
    \/ get_shards_any

SpecShards == Init /\ [][NextShards]_vars

TypeOK ==
    /\ pc \in PcValues
    /\ run \in 1..MaxRuns
    /\ tableExists \in BOOLEAN
    /\ \A id \in DOMAIN items : items[id].views >= 0 /\ items[id].downloads >= 0
    /\ results_current_page \in Nat
    /\ data = <<>>

-----------------------------------------------------------------------------
(* Properties *)

OtherDimension(dim) == IF dim = "views" THEN "downloads" ELSE "views"

\* The paged queries of a dimension in this run, in the order issued.
PageQueries(dim) ==
    SelectSeq(queries, LAMBDA q : q.dim = dim /\ q.kind = "page")

StatAsked(dim) ==
    \E k \in DOMAIN queries : queries[k].dim = dim /\ queries[k].kind = "stat"

\* The dimension's function has returned: every page was fetched and committed.
DimensionDone(dim) ==
    IF dim = "views"
    THEN pc = "views_indexed" \/ StatAsked("downloads")
    ELSE pc = "done"

\* C1: a page upsert of one dimension leaves the other dimension's stored
\* value of every existing row as it was (views pages preserve downloads,
\* downloads pages preserve views).
C1_ColumnIndependence ==
    [][\A dim \in Dimensions :
          pc = PcLoop(dim) =>
              \A id \in DOMAIN items :
                  /\ id \in DOMAIN items'
                  /\ items'[id][OtherDimension(dim)] = items[id][OtherDimension(dim)]]_vars

\* Both columns of one row were overwritten in the second run, each over a
\* value the other dimension had stored before.
C1_Witness ==
    /\ run = 2
    /\ pc = "done"
    /\ \E id \in DOMAIN itemsPrev :
        /\ itemsPrev[id].views > 0
        /\ itemsPrev[id].downloads > 0
        /\ items[id].views # itemsPrev[id].views
        /\ items[id].downloads # itemsPrev[id].downloads

\* C2: every stored row has, in each column, the count of the latest upsert
\* of that dimension that named its id, and 0 when no such upsert named it.
C2_MergeCorrectness ==
    \A id \in DOMAIN items : \A dim \in Dimensions :
        items[id][dim] = IF id \in DOMAIN lastSeen[dim] THEN lastSeen[dim][id] ELSE 0

\* The example of the claim: A was in a views page and then in a downloads
\* page, B only in a views page.
C2_Witness ==
    /\ pc = "done"
    /\ \E a, b \in DOMAIN items :
        /\ a \in DOMAIN lastSeen.views /\ a \in DOMAIN lastSeen.downloads
        /\ items[a].views > 0 /\ items[a].downloads > 0
        /\ items[a].views # items[a].downloads
        /\ b \in DOMAIN lastSeen.views /\ b \notin DOMAIN lastSeen.downloads
        /\ items[b].views > 0 /\ items[b].downloads = 0

\* C3: a run that ends normally on the same Solr answers as the run before
\* it leaves the table as that run left it.
C3_Idempotence ==
    (replay /\ pc \in {"done", "exited"}) => items = itemsPrev

C3_Witness ==
    /\ replay
    /\ run = 2
    /\ pc = "done"
    /\ upstream = prevUpstream
    /\ upstream.views.n = 101
    /\ upstream.downloads.n = 100
    /\ DOMAIN items = 1..101

\* C4: a dimension that ran to its end has issued floor(N/P) + 1 paged
\* queries, the k-th with offset (k-1)*P and limit P.
C4_PageCount ==
    \A dim \in Dimensions :
        DimensionDone(dim) =>
            LET qs == PageQueries(dim)
            IN  /\ Len(qs) = (upstream[dim].n \div results_per_page) + 1
                /\ \A k \in DOMAIN qs :
                    /\ qs[k].offset = (k - 1) * results_per_page
                    /\ qs[k].limit = results_per_page

\* N an exact multiple of P: two pages for N = 100, one page for N = 0.
C4_Witness ==
    /\ pc = "done"
    /\ upstream.views.n = 100
    /\ Len(PageQueries("views")) = 2
    /\ upstream.downloads.n = 0
    /\ Len(PageQueries("downloads")) = 1

\* C5 (as claimed): when the distinct count of a dimension is null or absent
\* in the answer, no paged query of that dimension is issued and the process
\* does not end in an unhandled failure there.
C5_ClaimAbsentCountEndsCleanly ==
    \A dim \in Dimensions :
        upstream[dim].kind \in {"field_null", "key_absent", "value_null"} =>
            /\ PageQueries(dim) = <<>>
            /\ ~(pc = "crashed" /\ queries[Len(queries)].dim = dim)

\* C6 (as claimed): a run that ends with status 0 after the views dimension
\* had nothing to index has queried the downloads dimension.
C6_ClaimEmptyViewsContinues ==
    (/\ pc \in {"done", "exited"}
     /\ \/ upstream.views.kind = "field_null"
        \/ upstream.views.kind = "count" /\ upstream.views.n = 0)
        => StatAsked("downloads")

\* C7 (as claimed): after a core-status answer with a non-success status no
\* facet query is issued and the run does not end with status 0.
C7_ClaimBadStatusIsFatal ==
    (upstream.cores # NoCoreResponse /\ upstream.cores.status_code # codes_ok)
        => (queries = <<>> /\ pc \notin {"done", "exited"})

\* The name is the base name, a hyphen and exactly four digits.
IsYearCore(name) ==
    /\ Len(name) = Len(Statistics) + 5
    /\ SubSeq(name, 1, Len(Statistics)) = Statistics
    /\ name[Len(Statistics) + 1] = "-"
    /\ \A i \in (Len(Statistics) + 2)..(Len(Statistics) + 5) : name[i] \in Digits

\* The comma-separated pieces of a string.
RECURSIVE SplitCommas(_)
SplitCommas(str) ==
    IF \A i \in DOMAIN str : str[i] # ","
    THEN <<str>>
    ELSE LET i == CHOOSE j \in DOMAIN str :
                      str[j] = "," /\ \A h \in 1..(j - 1) : str[h] # ","
         IN  <<SubSeq(str, 1, i - 1)>> \o SplitCommas(SubSeq(str, i + 1, Len(str)))

C9_NoLossNoDuplication ==
    \A dim \in Dimensions :
        DimensionDone(dim) =>
            LET qs == PageQueries(dim)
                n  == upstream[dim].n
            IN  /\ \A j, k \in DOMAIN qs :
                      j < k => qs[j].offset + qs[j].limit <= qs[k].offset
                /\ \A pos \in 0..(n - 1) :
                      \E k \in DOMAIN qs :
                          qs[k].offset <= pos /\ pos < qs[k].offset + qs[k].limit
                /\ \A i \in 1..n :
                      /\ i \in DOMAIN items
                      /\ items[i][dim] = Cnt(dim, i, upstream[dim].version)

\* Both dimensions took two non-empty pages.
C9_Witness ==
    /\ pc = "done"
    /\ upstream.views.n = 101
    /\ upstream.downloads.n = 101
    /\ Len(PageQueries("views")) = 2
    /\ DOMAIN items = 1..101

\* C10: a row for id exists if and only if some committed page, of views or
\* of downloads, has named id with a count of at least 1.
C10_RowIffObserved ==
    DOMAIN items =
        UNION { {id \in DOMAIN lastSeen[dim] : lastSeen[dim][id] >= 1} :
                    dim \in Dimensions }

\* Rows created by downloads pages alone; id 101 was never observed.
C10_Witness ==
    /\ pc = "done"
    /\ run = 1
    /\ DOMAIN lastSeen.views = {}
    /\ DOMAIN lastSeen.downloads = 1..100
    /\ DOMAIN items = 1..100

\* The ids of the facet results of a dimension in this run, as far as the
\* run has asked for them.
Observed(dim) ==
    IF upstream[dim].kind = "count" THEN 1..upstream[dim].n ELSE {}

\* C11: the set of stored ids never shrinks, in any step of any run, and a
\* row whose id is not in a dimension's facet results of this run has in that
\* column the value it had when the run started.
C11_NeverDeletedNorZeroed ==
    /\ [](/\ DOMAIN itemsPrev \subseteq DOMAIN items
          /\ \A id \in DOMAIN itemsPrev : \A dim \in Dimensions :
                id \notin Observed(dim) => items[id][dim] = itemsPrev[id][dim])
    /\ [][DOMAIN items \subseteq DOMAIN items']_vars

\* The first run stored 101 ids; the second, complete, run saw 100 of them in
\* both dimensions and changed rows, and id 101 still has both its counters.
C11_Witness ==
    /\ run = 2
    /\ pc = "done"
    /\ DOMAIN itemsPrev = 1..101
    /\ Observed("views") = 1..100
    /\ Observed("downloads") = 1..100
    /\ items[101] = itemsPrev[101]
    /\ items[101].views > 0 /\ items[101].downloads > 0
    /\ \E id \in 1..100 : items[id] # itemsPrev[id]

\* The paged queries and the commits of a dimension in this run, in order.
PageLog(dim) ==
    SelectSeq(queries, LAMBDA q : q.dim = dim /\ q.kind \in {"page", "commit"})

\* C12: within a dimension paged queries and commits alternate, each commit
\* is that of the page fetched just before it, and the offsets of the paged
\* queries ascend strictly (so none is asked twice); and every query of the
\* downloads dimension comes after the commit of the last views page.
C12_PageOrder ==
    /\ \A dim \in Dimensions :
          LET pl == PageLog(dim)
          IN  \A k \in DOMAIN pl :
                 IF k % 2 = 1
                 THEN /\ pl[k].kind = "page"
                      /\ k > 2 => pl[k].offset > pl[k - 2].offset
                 ELSE /\ pl[k].kind = "commit"
                      /\ pl[k].offset = pl[k - 1].offset
    /\ \A k \in DOMAIN queries :
          queries[k].dim = "downloads" =>
              /\ \A j \in DOMAIN queries : queries[j].dim = "views" => j < k
              /\ \E j \in 1..(k - 1) :
                    /\ queries[j].dim = "views"
                    /\ queries[j].kind = "commit"
                    /\ queries[j].offset = PageOffset(NumPages(upstream.views.n))
                    /\ \A i \in (j + 1)..(k - 1) : queries[i].dim = "downloads"

\* Two pages of views and then two pages of downloads, all committed.
C12_Witness ==
    /\ pc = "done"
    /\ Len(PageLog("views")) = 4
    /\ Len(PageLog("downloads")) = 4
    /\ PageLog("views")[3].offset = results_per_page
    /\ queries[Len(queries)].kind = "commit"

\* The driver states and the pc values that stand for them: "views_loop" and
\* "downloads_loop" are the driver inside index_views and index_downloads,
\* "views_indexed" is VIEWS_INDEXED, and "done" is DOWNLOADS_INDEXED and DONE
\* at once, the module ending with the call of index_downloads.  "exited"
\* (the early exit of an empty dimension) and "crashed" end a run elsewhere.
DriverSteps ==
    { <<"init", "table_ensured">>,
      <<"table_ensured", "shards_resolved">>,
      <<"shards_resolved", "views_loop">>,
      <<"views_loop", "views_loop">>,
      <<"views_loop", "views_indexed">>,
      <<"views_indexed", "downloads_loop">>,
      <<"downloads_loop", "downloads_loop">>,
      <<"downloads_loop", "done">> }

DriverEnds ==
    {"shards_resolved", "views_loop", "views_indexed", "downloads_loop"}
        \X {"exited", "crashed"}

\* C13: a step of a run takes the driver from a state to the next one of
\* INIT, TABLE_ENSURED, SHARDS_RESOLVED, VIEWS_INDEXED, DOWNLOADS_INDEXED,
\* DONE, or ends the run; the shard list is set in the one step from
\* TABLE_ENSURED to SHARDS_RESOLVED and in no other step of the run, and no
\* facet query is issued before that step.
C13_DriverOrder ==
    /\ [](/\ pc \in {"init", "table_ensured"} =>
                queries = <<>> /\ upstream.cores = NoCoreResponse
          /\ pc \notin {"init", "table_ensured"} =>
                upstream.cores # NoCoreResponse)
    /\ [][IF run' = run
          THEN /\ <<pc, pc'>> \in DriverSteps \cup DriverEnds
               /\ (shards' # shards \/ upstream'.cores # upstream.cores) =>
                      (pc = "table_ensured" /\ pc' = "shards_resolved")
          ELSE Terminated /\ pc' = "init"]_vars

\* A run that went through every driver state, with a non-empty shard list
\* and pages in both dimensions.
C13_Witness ==
    /\ pc = "done"
    /\ upstream.cores.status_code = codes_ok
    /\ shards # <<>>
    /\ Len(PageQueries("views")) >= 1
    /\ Len(PageQueries("downloads")) >= 1

\* The k-th entry of the log is a paged query that no commit follows: its
\* request or the parsing of its answer failed.
FailedFetch(k) ==
    /\ queries[k].kind = "page"
    /\ k = Len(queries) \/ queries[k + 1].kind # "commit"

\* C14: a paged query that failed is the last entry of the run's log and the
\* process has ended as crashed (no later page, no second query at its
\* offset); the ids of the pages before it have in that column the counts
\* those pages wrote, the ids of the earlier dimension theirs; and the only
\* step after it is the start of another run.
C14_FailedPageIsFatal ==
    /\ [](\A k \in DOMAIN queries :
             FailedFetch(k) =>
                LET dim == queries[k].dim
                IN  /\ k = Len(queries)
                    /\ pc = "crashed"
                    /\ Len(SelectSeq(PageQueries(dim),
                              LAMBDA q : q.offset = queries[k].offset)) = 1
                    /\ \A id \in 1..Min(queries[k].offset, upstream[dim].n) :
                          /\ id \in DOMAIN items
                          /\ items[id][dim] = Cnt(dim, id, upstream[dim].version)
                    /\ dim = "downloads" =>
                          \A id \in 1..upstream.views.n :
                              /\ id \in DOMAIN items
                              /\ items[id].views =
                                     Cnt("views", id, upstream.views.version))
    /\ [][pc = "crashed" => (pc' = "init" /\ run' = run + 1)]_vars

\* The second page of downloads failed, after two pages of views and the
\* first page of downloads were committed.
C14_Witness ==
    /\ pc = "crashed"
    /\ Len(queries) > 0
    /\ FailedFetch(Len(queries))
    /\ queries[Len(queries)].dim = "downloads"
    /\ queries[Len(queries)].offset = results_per_page
    /\ upstream.views.n = 101
    /\ upstream.downloads.n = 101
    /\ items[100].downloads = Cnt("downloads", 100, upstream.downloads.version)

\* C15: every query in the log of a run, the distinct-count query and the
\* paged queries of both dimensions, carries the shards value of the run, and
\* once the resolver has been called that value is its result.
C15_SameShards ==
    /\ \A k \in DOMAIN queries :
          queries[k].kind \in {"stat", "page"} => queries[k].shards = shards
    /\ upstream.cores # NoCoreResponse =>
          shards = get_statistics_shards(upstream.cores)

\* Six queries, views and downloads, all with the list of two targets.
C15_Witness ==
    /\ pc = "done"
    /\ Len(SplitCommas(shards)) = 2
    /\ Len(SelectSeq(queries, LAMBDA q : q.kind \in {"stat", "page"})) = 6
    /\ StatAsked("views")
    /\ StatAsked("downloads")

\* C16: never more than one database connection is open; one is open only
\* while a page loop runs, and none once the process has ended, whether by
\* the last page, by a failed page, or by the early exit of an empty dimension.
C16_ConnectionScoped ==
    /\ connections \in {0, 1}
    /\ pc \notin {"views_loop", "downloads_loop"} => connections = 0
    /\ Terminated => connections = 0

\* The process ended on the failure of the second page of views, after the
\* first was committed over the connection of the with block.
C16_Witness ==
    /\ pc = "crashed"
    /\ connections = 0
    /\ Len(queries) = 4
    /\ queries[3].kind = "commit"
    /\ queries[4].kind = "page"
    /\ queries[4].dim = "views"

\* A request of the run did not bring what the code needs: a first query
\* answered without a count, or a paged query that failed.
RunFailed ==
    \/ \E dim \in Dimensions :
          upstream[dim].kind \in {"field_null", "key_absent", "value_null"}
    \/ Len(queries) > 0 /\ FailedFetch(Len(queries))

\* C17: a dimension with distinct count N issues at most N / P + 1 paged
\* queries, and every run in which no request fails reaches DONE.
C17_RunTerminates ==
    /\ [](\A dim \in Dimensions :
             Len(PageQueries(dim)) <= upstream[dim].n \div results_per_page + 1)
    /\ (pc = "init") ~> (pc = "done" \/ RunFailed)

\* A run without failure that is done after two pages in each dimension.
C17_Witness ==
    /\ pc = "done"
    /\ ~RunFailed
    /\ run = 1
    /\ Len(PageQueries("views")) = 2
    /\ Len(PageQueries("downloads")) = 2

\* The table a single complete run leaves for the upstream data.
SingleRunTable ==
    [id \in Observed("views") \cup Observed("downloads") |->
        [views     |-> IF id \in Observed("views")
                       THEN Cnt("views", id, upstream.views.version) ELSE 0,
         downloads |-> IF id \in Observed("downloads")
                       THEN Cnt("downloads", id, upstream.downloads.version)
                       ELSE 0]]

\* C18: in concurrent runs on the same upstream data, interleaved at whole
\* page steps, no process fails on an upsert, every row present holds in each
\* column 0 or the count a single run stores there (one row per id, the table
\* being keyed by id), and when all processes are done the table is the one a
\* single run leaves.
C18_ConcurrentRunsAgree ==
    /\ \A p \in DOMAIN workers : workers[p].pc # "crashed"
    /\ \A id \in DOMAIN items :
          /\ id \in DOMAIN SingleRunTable
          /\ \A dim \in Dimensions :
                items[id][dim] \in {0, SingleRunTable[id][dim]}
    /\ (workers # <<>> /\ \A p \in DOMAIN workers : workers[p].pc = "done")
          => items = SingleRunTable

\* Both processes are done, each having upserted two pages of views and two
\* of downloads over the rows of the other; id 101 has no downloads.
C18_Witness ==
    /\ Len(workers) >= 2
    /\ \A p \in DOMAIN workers : workers[p].pc = "done"
    /\ upstream.views.n = 101
    /\ upstream.downloads.n = 100
    /\ DOMAIN items = 1..101
    /\ items[101].downloads = 0

\* C19: in a run on a table that exists, the table has after the creation
\* step the rows, with both counters, that the run before left, and the step
\* itself changes no row.
C19_EnsureTableKeepsRows ==
    /\ []((run > 1 /\ pc = "table_ensured") => items = itemsPrev)
    /\ [][(pc = "init" /\ tableExists) => items' = items]_vars

\* The second run has ensured the table; the 101 rows of the first are there.
C19_Witness ==
    /\ run = 2
    /\ pc = "table_ensured"
    /\ tableExists
    /\ DOMAIN items = 1..101
    /\ \E id \in DOMAIN items : items[id].views > 0 /\ items[id].downloads > 0

\* The number of facets of the page at offset of a list of n.
PageRows(n, offset) ==
    IF n > offset THEN Min(results_per_page, n - offset) ELSE 0

\* C20: the batch of every commit has as many rows as its page has facets
\* (none of an earlier page is sent again), the batch list is empty between
\* pages, and the step of the page at offset N, N a multiple of the page
\* size, sends an empty batch and leaves the table as it is.
C20_BatchIsPage ==
    /\ [](/\ \A k \in DOMAIN queries :
                queries[k].kind = "commit" =>
                    queries[k].rows =
                        PageRows(upstream[queries[k].dim].n, queries[k].offset)
          /\ pc \in {"views_loop", "downloads_loop"} => data = <<>>)
    /\ [][\A dim \in Dimensions :
             (/\ pc = PcLoop(dim)
              /\ PageOffset(results_current_page) = upstream[dim].n
              /\ Len(queries') = Len(queries) + 2)
                 => /\ queries'[Len(queries')].rows = 0
                    /\ items' = items]_vars

\* The extra page of a list of 100 was committed with an empty batch, after a
\* first page of 100 rows.
C20_Witness ==
    /\ pc = "views_indexed"
    /\ upstream.views.n = results_per_page
    /\ Len(queries) = 5
    /\ queries[3].kind = "commit" /\ queries[3].rows = results_per_page
    /\ queries[5].kind = "commit" /\ queries[5].rows = 0
    /\ queries[5].offset = results_per_page

====
